---- MODULE Spec2Model ----
(***************************************************************************)
(* A model of ftldat2 (src/ftldat2/__init__.py): the FTLPack object with   *)
(* its two fields index and index_size, its four methods load, save,       *)
(* construct and destruct, and the part of the filesystem they touch.      *)
(*                                                                         *)
(* Text (str) is a sequence of code points, bytes a sequence of 0..255.    *)
(* str.encode() and bytes.decode() are UTF-8, struct's '<L' is four bytes, *)
(* least significant first.                                                *)
(***************************************************************************)
EXTENDS Integers, Sequences, FiniteSets, TLC

VARIABLES
    index,       \* self.index: the entries, FileEntry records
    index_size,  \* self.index_size
    fs,          \* the filesystem
    last,        \* the most recent call and how it ended
    damaged,     \* the archive file has been cut short
    clean,       \* no load or construct has raised so far
    produced     \* the entries the most recent load or construct appended

vars == <<index, index_size, fs, last, damaged, clean, produced>>

(***************************************************************************)
(* Bounds of the model.                                                    *)
(***************************************************************************)
\* An archive handed to the codec holds at most MaxEntries entries.
MaxEntries == 2

\* Its declared capacity is at most MaxCap.
MaxCap == 2

\* In Spec, the archive file loses at most MaxCut bytes.
MaxCut == 2

(***************************************************************************)
(* Characters used by the model's names, as code points.                   *)
(***************************************************************************)
Ord == [slash |-> 47, dot |-> 46, a |-> 97, s |-> 115, l |-> 108, k |-> 107,
        p |-> 112, x |-> 120, y |-> 121, z |-> 122, T |-> 84, D |-> 68,
        star |-> 42, eacute |-> 233]

Min(m, n) == IF m <= n THEN m ELSE n

Max(m, n) == IF m >= n THEN m ELSE n

RECURSIVE Concat(_)
\* The concatenation of a sequence of sequences.
Concat(ss) == IF ss = <<>> THEN <<>> ELSE Head(ss) \o Concat(Tail(ss))

(***************************************************************************)
(* str.encode() / bytes.decode(): UTF-8.                                   *)
(***************************************************************************)
Utf8EncodeChar(c) ==
    IF c < 128 THEN <<c>>
    ELSE IF c < 2048 THEN <<192 + (c \div 64), 128 + (c % 64)>>
    ELSE IF c < 65536
         THEN <<224 + (c \div 4096), 128 + ((c \div 64) % 64), 128 + (c % 64)>>
         ELSE <<240 + (c \div 262144), 128 + ((c \div 4096) % 64),
                128 + ((c \div 64) % 64), 128 + (c % 64)>>

RECURSIVE Utf8Encode(_)
Utf8Encode(str) ==
    IF str = <<>> THEN <<>>
    ELSE Utf8EncodeChar(Head(str)) \o Utf8Encode(Tail(str))

IsCont(b) == b >= 128 /\ b <= 191

\* The number of bytes of the well-formed UTF-8 sequence bs starts with,
\* 0 when it starts with none (decode() raises UnicodeDecodeError).
Utf8Lead(bs) ==
    LET b1 == bs[1]
        n  == Len(bs)
    IN  IF b1 < 128 THEN 1
        ELSE IF b1 >= 194 /\ b1 <= 223
             THEN IF n >= 2 /\ IsCont(bs[2]) THEN 2 ELSE 0
        ELSE IF b1 >= 224 /\ b1 <= 239
             THEN IF /\ n >= 3 /\ IsCont(bs[2]) /\ IsCont(bs[3])
                     /\ (b1 = 224 => bs[2] >= 160)
                     /\ (b1 = 237 => bs[2] <= 159)
                  THEN 3 ELSE 0
        ELSE IF b1 >= 240 /\ b1 <= 244
             THEN IF /\ n >= 4 /\ IsCont(bs[2]) /\ IsCont(bs[3]) /\ IsCont(bs[4])
                     /\ (b1 = 240 => bs[2] >= 144)
                     /\ (b1 = 244 => bs[2] <= 143)
                  THEN 4 ELSE 0
        ELSE 0

RECURSIVE Utf8Valid(_)
Utf8Valid(bs) ==
    IF bs = <<>> THEN TRUE
    ELSE LET k == Utf8Lead(bs)
         IN  k > 0 /\ Utf8Valid(SubSeq(bs, k + 1, Len(bs)))

Utf8DecodeChar(bs, k) ==
    IF k = 1 THEN bs[1]
    ELSE IF k = 2 THEN (bs[1] - 192) * 64 + (bs[2] - 128)
    ELSE IF k = 3 THEN (bs[1] - 224) * 4096 + (bs[2] - 128) * 64 + (bs[3] - 128)
    ELSE (bs[1] - 240) * 262144 + (bs[2] - 128) * 4096
         + (bs[3] - 128) * 64 + (bs[4] - 128)

RECURSIVE Utf8Decode(_)
\* Defined on the byte strings Utf8Valid accepts.
Utf8Decode(bs) ==
    IF bs = <<>> THEN <<>>
    ELSE LET k == Utf8Lead(bs)
         IN  <<Utf8DecodeChar(bs, k)>> \o Utf8Decode(SubSeq(bs, k + 1, Len(bs)))

(***************************************************************************)
(* struct.pack('<L', n) and struct.unpack('<L', b).  TLC's integers are    *)
(* 32 bits wide and signed, so Unpack is exact below 2^24 and answers 2^24 *)
(* for anything larger: such a value is only ever an offset, a length or a *)
(* slot count beyond the end of every file of the model.  For the same     *)
(* reason no number handed to Pack is out of the range of '<L', and the    *)
(* struct.error pack raises for one is not modelled.                       *)
(***************************************************************************)
Pack(n) == <<n % 256, (n \div 256) % 256, (n \div 65536) % 256,
             (n \div 16777216) % 256>>

Unpack(b) ==
    IF b[4] > 0 THEN 16777216 ELSE b[1] + 256 * b[2] + 65536 * b[3]

(***************************************************************************)
(* FileEntry.                                                              *)
(***************************************************************************)
FileEntry(path, contents) == [path |-> path, contents |-> contents]

\* FileEntry.size: len() of a str counts characters.
EntrySize(entry) == 8 + Len(entry.path) + Len(entry.contents)

(***************************************************************************)
(* The filesystem.  fs maps a key, the sequence of the names on the way    *)
(* from the root directory to a node, to the node: a regular file with its *)
(* bytes, a directory, or a symbolic link with its target text.  The       *)
(* process's working directory is the root directory.                      *)
(***************************************************************************)
Sep == <<Ord.slash>>

NoNode == [kind |-> "none", data |-> <<>>, readable |-> FALSE]

DirNode == [kind |-> "dir", data |-> <<>>, readable |-> TRUE]

FileNode(data) == [kind |-> "file", data |-> data, readable |-> TRUE]

\* A regular file the process has no permission to open.
LockedNode(data) == [kind |-> "file", data |-> data, readable |-> FALSE]

LinkNode(target) == [kind |-> "link", data |-> target, readable |-> TRUE]

Lookup(f, key) == IF key \in DOMAIN f THEN f[key] ELSE NoNode

RECURSIVE Split(_, _)
\* str.split('/'): the names between the separators, cur the one being read.
Split(str, cur) ==
    IF str = <<>> THEN <<cur>>
    ELSE IF Head(str) = Ord.slash THEN <<cur>> \o Split(Tail(str), <<>>)
    ELSE Split(Tail(str), Append(cur, Head(str)))

RECURSIVE Walk(_, _)
\* The key reached from key by the names comps: "" and "." stay, ".." goes up.
Walk(key, comps) ==
    IF comps = <<>> THEN key
    ELSE LET c == Head(comps)
         IN  IF c = <<>> \/ c = <<Ord.dot>> THEN Walk(key, Tail(comps))
             ELSE IF c = <<Ord.dot, Ord.dot>>
                  THEN Walk(IF key = <<>> THEN key ELSE SubSeq(key, 1, Len(key) - 1),
                            Tail(comps))
             ELSE Walk(Append(key, c), Tail(comps))

\* The key a path names, seen from the directory base.
NormAt(base, str) ==
    Walk(IF str # <<>> /\ Head(str) = Ord.slash THEN <<>> ELSE base, Split(str, <<>>))

Norm(str) == NormAt(<<>>, str)

Parent(key) == SubSeq(key, 1, Len(key) - 1)

TrailingSep(str) == str # <<>> /\ str[Len(str)] = Ord.slash

\* The key of the node a path names once a symbolic link at its end is
\* followed (a link's target is read from the link's own directory).
RealKey(f, str) ==
    LET key == Norm(str)
    IN  IF Lookup(f, key).kind = "link"
        THEN NormAt(Parent(key), f[key].data)
        ELSE key

\* os.path.islink
IsLink(f, str) == Lookup(f, Norm(str)).kind = "link"

\* os.path.isfile
IsFile(f, str) ==
    /\ str # <<>>
    /\ ~TrailingSep(str)
    /\ Lookup(f, RealKey(f, str)).kind = "file"

\* os.path.isdir, for a key.
IsDirKey(f, key) == key = <<>> \/ Lookup(f, key).kind = "dir"

\* open(path, 'rb') succeeds.
CanRead(f, str) == IsFile(f, str) /\ f[RealKey(f, str)].readable

\* open(path, 'rb').read()
ReadFile(f, str) == f[RealKey(f, str)].data

\* open(path, 'wb') succeeds: the file is there and may be opened, or is not
\* and its directory is.
CanWrite(f, str) ==
    LET key == RealKey(f, str)
    IN  /\ str # <<>>
        /\ ~TrailingSep(str)
        /\ key # <<>>
        /\ IsDirKey(f, Parent(key))
        /\ Lookup(f, key).kind \in {"none", "file"}
        /\ (Lookup(f, key).kind = "file" => f[key].readable)

\* with open(path, 'wb') as f: f.write(data)
WriteFile(f, str, data) ==
    LET key == RealKey(f, str)
    IN  [k \in DOMAIN f \cup {key} |-> IF k = key THEN FileNode(data) ELSE f[k]]

\* posixpath.join(a, b)
Join(a, b) ==
    IF b # <<>> /\ Head(b) = Ord.slash THEN b
    ELSE IF a = <<>> \/ TrailingSep(a) THEN a \o b
    ELSE a \o Sep \o b

RECURSIVE RStripSep(_)
RStripSep(str) ==
    IF TrailingSep(str) THEN RStripSep(SubSeq(str, 1, Len(str) - 1)) ELSE str

\* The index of the last separator of str, 0 when it has none.
RFindSep(str) ==
    LET at == {i \in 1..Len(str) : str[i] = Ord.slash}
    IN  IF at = {} THEN 0 ELSE CHOOSE i \in at : \A j \in at : j <= i

\* posixpath.dirname(p)
DirName(str) ==
    LET head == SubSeq(str, 1, RFindSep(str))
    IN  IF head # <<>> /\ \E i \in 1..Len(head) : head[i] # Ord.slash
        THEN RStripSep(head)
        ELSE head

\* The directories os.makedirs(name, exist_ok=True) has to find or make.
DirChain(name) ==
    LET key == Norm(name)
    IN  {SubSeq(key, 1, n) : n \in 1..Len(key)}

\* os.makedirs(name, exist_ok=True) succeeds: no name on the way is taken by
\* something that is no directory.
CanMakeDirs(f, name) ==
    /\ name # <<>>
    /\ \A key \in DirChain(name) : Lookup(f, key).kind \in {"none", "dir"}

MakeDirs(f, name) ==
    [k \in DOMAIN f \cup DirChain(name) |-> IF k \in DOMAIN f THEN f[k] ELSE DirNode]

\* The regular files below the directory key, by their keys from it.
FilesUnder(f, key) ==
    {SubSeq(k, Len(key) + 1, Len(k)) :
        k \in {q \in DOMAIN f : /\ Len(q) > Len(key)
                                 /\ SubSeq(q, 1, Len(key)) = key
                                 /\ f[q].kind = "file"}}

(***************************************************************************)
(* FTLPack.load.                                                           *)
(***************************************************************************)
\* f.seek(pos); f.read(n): fewer than n bytes when the file ends first.
Read(data, pos, n) == SubSeq(data, pos + 1, Min(pos + n, Len(data)))

\* load without line 94.
LoadResetMissing(old) == old

\* Line 94.
LoadReset(old) == <<>>

\* One pass of the loop of lines 97-106, for the slot at index_offset: what
\* it raises ("" when nothing), the entry it appends (none when the slot is
\* empty) and whether a read came back shorter than asked.
LoadSlot(data, index_offset) ==
    LET raw      == Read(data, index_offset, 4)
        offset   == Unpack(raw)
        lens     == Read(data, offset, 8)
        size     == Unpack(SubSeq(lens, 1, 4))
        path_len == Unpack(SubSeq(lens, 5, 8))
        pbytes   == Read(data, offset + 8, path_len)
        cbytes   == Read(data, offset + 8 + Len(pbytes), size)
    IN  IF Len(raw) < 4
        THEN [raises |-> "struct.error", entries |-> <<>>, short |-> TRUE]
        ELSE IF ~(offset > 0)
        THEN [raises |-> "", entries |-> <<>>, short |-> FALSE]
        ELSE IF Len(lens) < 8
        THEN [raises |-> "struct.error", entries |-> <<>>, short |-> TRUE]
        ELSE IF ~Utf8Valid(pbytes)
        THEN [raises |-> "UnicodeDecodeError", entries |-> <<>>,
              short |-> Len(pbytes) < path_len]
        ELSE [raises |-> "", entries |-> <<FileEntry(Utf8Decode(pbytes), cbytes)>>,
              short |-> Len(pbytes) < path_len \/ Len(cbytes) < size]

SetMin(S) == CHOOSE i \in S : \A j \in S : i <= j

RECURSIVE LoadGather(_, _)
\* The entries of the passes S of the loop, in the loop's order.
LoadGather(r, S) ==
    IF S = {} THEN <<>>
    ELSE r[SetMin(S)].entries \o LoadGather(r, S \ {SetMin(S)})

\* The loop of lines 97-106 over n slots, acc the entries before it.  Each
\* pass seeks before it reads, so what pass i does depends on the file
\* alone; the loop ends with the first pass that raises, which is at the
\* latest the pass whose slot ends beyond the file, slot Len(data) \div 4.
LoadSlots(data, n, acc) ==
    LET m    == Min(n, Len(data) \div 4)
        r    == [i \in 1..m |-> LoadSlot(data, 4 * i)]
        bad  == {i \in 1..m : r[i].raises # ""}
        done == IF bad = {} THEN m ELSE SetMin(bad) - 1
    IN  [status |-> IF bad = {} THEN "ok" ELSE r[SetMin(bad)].raises,
         index  |-> acc \o LoadGather(r, {i \in 1..done : r[i].entries # <<>>}),
         short  |-> \E i \in 1..Min(done + 1, m) : r[i].short]

\* The body of load on an open file: the object's fields when load returns
\* or raises.
LoadRun(data, old_index, old_size) ==
    LET hdr == Read(data, 0, 4)
    IN  IF Len(hdr) < 4
        THEN [status |-> "struct.error", index |-> LoadReset(old_index),
              index_size |-> old_size, short |-> TRUE]
        ELSE LET n == Unpack(hdr)
                 r == LoadSlots(data, n, LoadReset(old_index))
             IN  [status |-> r.status, index |-> r.index, index_size |-> n,
                  short |-> r.short]

(***************************************************************************)
(* FTLPack.save.                                                           *)
(***************************************************************************)
\* SaveCapacityOk with the comparison off by one.
SaveCapacityOkLoose(idx, size) == ~(Len(idx) > size + 1)

\* Line 115, negated.
SaveCapacityOk(idx, size) == ~(Len(idx) > size)

RECURSIVE SaveOffsets(_, _)
\* Lines 121-123.
SaveOffsets(idx, offset) ==
    IF idx = <<>> THEN <<>>
    ELSE Pack(offset) \o SaveOffsets(Tail(idx), offset + EntrySize(Head(idx)))

\* SaveFill counting slots where it has to count bytes.
SaveFillSlots(idx, size) == [i \in 1..(size - Len(idx)) |-> 0]

\* Line 124.
SaveFill(idx, size) == [i \in 1..(4 * (size - Len(idx))) |-> 0]

\* Lines 126-129.
SaveRecord(entry) ==
    Pack(Len(entry.contents)) \o Pack(Len(entry.path))
    \o Utf8Encode(entry.path) \o entry.contents

\* Everything save writes, lines 119-129.
SaveBytes(idx, size) ==
    Pack(size) \o SaveOffsets(idx, 4 + 4 * size) \o SaveFill(idx, size)
    \o Concat([i \in 1..Len(idx) |-> SaveRecord(idx[i])])

(***************************************************************************)
(* FTLPack.construct.                                                      *)
(***************************************************************************)
RECURSIVE LexLess(_, _)
\* s sorts before t.
LexLess(s, t) ==
    IF t = <<>> THEN FALSE
    ELSE IF s = <<>> THEN TRUE
    ELSE IF Head(s) # Head(t) THEN Head(s) < Head(t)
    ELSE LexLess(Tail(s), Tail(t))

RECURSIVE Sorted(_)
Sorted(S) ==
    IF S = {} THEN <<>>
    ELSE LET m == CHOOSE n \in S : \A o \in S \ {n} : LexLess(n, o)
         IN  <<m>> \o Sorted(S \ {m})

Reverse(seq) == [i \in 1..Len(seq) |-> seq[Len(seq) + 1 - i]]

\* The names os.scandir gives for the directory key, in the order the
\* filesystem lists them (rev: the one or the other way round); nothing
\* when key is no directory.
ListDir(f, key, rev) ==
    LET names == {q[Len(key) + 1] :
                    q \in {k \in DOMAIN f : /\ Len(k) = Len(key) + 1
                                             /\ SubSeq(k, 1, Len(key)) = key}}
    IN  IF ~IsDirKey(f, key) THEN <<>>
        ELSE IF rev THEN Reverse(Sorted(names)) ELSE Sorted(names)

\* glob._ishidden
IsHidden(name) == name # <<>> /\ Head(name) = Ord.dot

RECURSIVE RListDir(_, _, _)
RECURSIVE RListNames(_, _, _, _)
\* glob._rlistdir: every name below the directory key that is not hidden,
\* a directory before what it holds.
RListDir(f, key, rev) == RListNames(f, key, ListDir(f, key, rev), rev)

RListNames(f, key, names, rev) ==
    IF names = <<>> THEN <<>>
    ELSE LET n     == Head(names)
             below == RListDir(f, Append(key, n), rev)
         IN  (IF IsHidden(n) THEN <<>>
              ELSE <<n>> \o [i \in 1..Len(below) |-> Join(n, below[i])])
             \o RListNames(f, key, Tail(names), rev)

\* glob.iglob(os.path.join(path, '**'), recursive=True), for a path that is
\* not empty: the directory itself, as "dir/", then what is below it.
IGlob(f, path, rev) ==
    LET dirname == DirName(Join(path, <<Ord.star, Ord.star>>))
        names   == <<<<>>>> \o RListDir(f, Norm(dirname), rev)
    IN  [i \in 1..Len(names) |-> Join(dirname, names[i])]

\* str.replace for one character.
Replace(str, old, new) == [i \in 1..Len(str) |-> IF str[i] = old THEN new ELSE str[i]]

\* Line 141.
ConstructReset(old) == <<>>

\* Line 142.
ConstructClip(path) == Len(path) + Len(Sep)

\* ConstructIndexSize as the docstring of construct has it ("the smaller").
ConstructIndexSizeSmaller(n, min_index) == Min(n, min_index)

\* Line 153.
ConstructIndexSize(n, min_index) == Max(n, min_index)

\* Line 150.
ConstructEntryPath(path, clip) ==
    Replace(SubSeq(path, clip + 1, Len(path)), Sep[1], Ord.slash)

RECURSIVE ConstructLoop(_, _, _, _)
\* The loop of lines 143-152 over what iglob yields.
ConstructLoop(f, clip, paths, acc) ==
    IF paths = <<>> THEN [status |-> "ok", index |-> acc]
    ELSE LET found == Head(paths)
             path  == IF IsLink(f, found) THEN f[Norm(found)].data ELSE found
         IN  IF ~IsFile(f, path) THEN ConstructLoop(f, clip, Tail(paths), acc)
             ELSE IF ~CanRead(f, path) THEN [status |-> "OSError", index |-> acc]
             ELSE ConstructLoop(f, clip, Tail(paths),
                     Append(acc, FileEntry(ConstructEntryPath(path, clip),
                                           ReadFile(f, path))))

\* The object's fields when construct returns or raises.
ConstructRun(f, path, min_index, rev, old_index, old_size) ==
    LET r == ConstructLoop(f, ConstructClip(path), IGlob(f, path, rev),
                           ConstructReset(old_index))
    IN  [status |-> r.status, index |-> r.index,
         index_size |-> IF r.status = "ok"
                        THEN ConstructIndexSize(Len(r.index), min_index)
                        ELSE old_size]

(***************************************************************************)
(* FTLPack.destruct.                                                       *)
(***************************************************************************)
\* DestructTarget without the directory to write to.
DestructTargetBare(path, entry) == Replace(entry.path, Ord.slash, Sep[1])

\* Line 162.
DestructTarget(path, entry) == Join(path, Replace(entry.path, Ord.slash, Sep[1]))

RECURSIVE DestructRun(_, _, _)
\* The loop of lines 161-165: how it ends and the filesystem it leaves.
DestructRun(f, path, idx) ==
    IF idx = <<>> THEN [status |-> "ok", fs |-> f]
    ELSE LET target == DestructTarget(path, Head(idx))
             dir    == DirName(target)
         IN  IF ~CanMakeDirs(f, dir) THEN [status |-> "OSError", fs |-> f]
             ELSE LET g == MakeDirs(f, dir)
                  IN  IF ~CanWrite(g, target) THEN [status |-> "OSError", fs |-> g]
                      ELSE DestructRun(WriteFile(g, target, Head(idx).contents),
                                       path, Tail(idx))

(***************************************************************************)
(* The calls.  last records the most recent call, how it ended ("ok" or    *)
(* the exception it raised) and its arguments.                             *)
(***************************************************************************)
NoCall == [op |-> "none", status |-> "ok", short |-> FALSE, root |-> <<>>,
           min_index |-> 0]

Called(op, status) ==
    [op |-> op, status |-> status, short |-> FALSE, root |-> <<>>, min_index |-> 0]

\* pack.save(filename)
Save(filename) ==
    /\ IF ~SaveCapacityOk(index, index_size)
       THEN /\ last' = Called("save", "FTLPackError")
            /\ fs' = fs
       ELSE IF ~CanWrite(fs, filename)
       THEN /\ last' = Called("save", "OSError")
            /\ fs' = fs
       ELSE /\ last' = Called("save", "ok")
            /\ fs' = WriteFile(fs, filename, SaveBytes(index, index_size))
    /\ UNCHANGED <<index, index_size, damaged, clean, produced>>

\* pack.load(filename)
Load(filename) ==
    /\ IF ~CanRead(fs, filename)
       THEN /\ last' = Called("load", "OSError")
            /\ index' = LoadReset(index)
            /\ index_size' = index_size
            /\ produced' = <<>>
       ELSE LET r == LoadRun(ReadFile(fs, filename), index, index_size)
            IN  /\ last' = [Called("load", r.status) EXCEPT !.short = r.short]
                /\ index' = r.index
                /\ index_size' = r.index_size
                /\ produced' = SubSeq(r.index, Len(LoadReset(index)) + 1, Len(r.index))
    /\ clean' = (clean /\ last'.status = "ok")
    /\ UNCHANGED <<fs, damaged>>

\* The file loses its last n bytes behind the program's back (a partial
\* copy, a download that stopped): once in a behaviour.
Truncate(filename, n) ==
    /\ ~damaged
    /\ CanRead(fs, filename)
    /\ n >= 1
    /\ n <= Len(ReadFile(fs, filename))
    /\ fs' = WriteFile(fs, filename,
                       SubSeq(ReadFile(fs, filename), 1,
                              Len(ReadFile(fs, filename)) - n))
    /\ damaged' = TRUE
    /\ last' = Called("truncate", "ok")
    /\ UNCHANGED <<index, index_size, clean, produced>>

\* pack.construct(path, min_index); rev is the order directories list in.
Construct(path, min_index, rev) ==
    LET r == ConstructRun(fs, path, min_index, rev, index, index_size)
    IN  /\ index' = r.index
        /\ index_size' = r.index_size
        /\ last' = [Called("construct", r.status) EXCEPT !.root = path,
                                                         !.min_index = min_index]
        /\ clean' = (clean /\ r.status = "ok")
        /\ produced' = SubSeq(r.index, Len(ConstructReset(index)) + 1, Len(r.index))
        /\ UNCHANGED <<fs, damaged>>

\* pack.destruct(path)
Destruct(path) ==
    LET r == DestructRun(fs, path, index)
    IN  /\ fs' = r.fs
        /\ last' = [Called("destruct", r.status) EXCEPT !.root = path]
        /\ UNCHANGED <<index, index_size, damaged, clean, produced>>

(***************************************************************************)
(* SpecCodec: save and load on any archive of the bounded universe.        *)
(***************************************************************************)
PackName == <<Ord.slash, Ord.p>>

PackKey == Norm(PackName)

EmptyFs == [k \in {<<>>} |-> DirNode]

CodecPaths == {<<Ord.a>>, <<Ord.eacute>>}

CodecContents == {<<>>, <<Ord.x>>}

CodecEntries == {FileEntry(p, c) : p \in CodecPaths, c \in CodecContents}

Archives(n) == UNION {[1..m -> CodecEntries] : m \in 0..n}

\* An archive file left at PackName by an earlier run.
OldPack == SaveBytes(<<FileEntry(<<Ord.a>>, <<Ord.y>>)>>, 1)

\* index and index_size are plain attributes: any archive of the universe,
\* as a caller sets them, those with more entries than capacity included
\* (under Spec, a construct that raises leaves such an object as well).
InitCodec ==
    /\ index \in Archives(MaxEntries)
    /\ index_size \in 0..MaxCap
    /\ fs \in {EmptyFs, WriteFile(EmptyFs, PackName, OldPack)}
    /\ last = NoCall
    /\ damaged = FALSE
    /\ clean = TRUE
    /\ produced = index

NextCodec ==
    \/ Save(PackName)
    \/ Load(PackName)
    \/ \E n \in 1..(4 + 4 * MaxCap + MaxEntries * 12) : Truncate(PackName, n)

SpecCodec == InitCodec /\ [][NextCodec]_vars

(***************************************************************************)
(* Properties of the codec, checked under SpecCodec.                       *)
(***************************************************************************)
PackData(f) == f[PackKey].data

\* The value of index slot i (from 1) of an archive's bytes, -1 when the
\* bytes end before it does.
SlotValue(data, i) ==
    LET raw == Read(data, 4 * i, 4)
    IN  IF Len(raw) = 4 THEN Unpack(raw) ELSE -1

\* The bytes of an entry's record in the format: 8 + byteLength(path) +
\* byteLength(contents).
RecordBytes(entry) == 8 + Len(Utf8Encode(entry.path)) + Len(entry.contents)

RECURSIVE FormatOffset(_, _, _)
\* Where the format puts record i: 4 + 4*capacity + the records before it.
FormatOffset(idx, size, i) ==
    IF i = 1 THEN 4 + 4 * size
    ELSE FormatOffset(idx, size, i - 1) + RecordBytes(idx[i - 1])

\* The record of the format: contentLength, pathLength, path, content.
FormatRecord(entry) ==
    Pack(Len(entry.contents)) \o Pack(Len(Utf8Encode(entry.path)))
    \o Utf8Encode(entry.path) \o entry.contents

\* C1: loading the bytes save wrote for an archive gives back the same
\* entries, in the same order, and the same capacity.  (save leaves the
\* object as it was, so the load right after it starts from that archive.)
RoundTripLoadSave ==
    [][(last.op = "save" /\ last.status = "ok" /\ last'.op = "load")
        => (last'.status = "ok" /\ index' = index /\ index_size' = index_size)]_vars

\* C2: save on an archive with more entries than its capacity raises
\* FTLPackError and touches neither the filesystem nor the archive.
CapacityInvariant ==
    [][(last'.op = "save" /\ Len(index) > index_size)
        => /\ last'.status = "FTLPackError"
           /\ fs' = fs
           /\ index' = index
           /\ index_size' = index_size]_vars

\* The refused save happened, over an archive file that was already there.
CapacityWitness ==
    /\ last.op = "save"
    /\ last.status = "FTLPackError"
    /\ Len(index) > index_size
    /\ Len(index) = 2
    /\ PackKey \in DOMAIN fs
    /\ PackData(fs) = OldPack

\* C4: in what save wrote, slot i holds the format's offset of record i,
\* and record i, well-formed, begins at that offset.
LayoutInvariant ==
    (last.op = "save" /\ last.status = "ok")
    => \A i \in 1..Len(index) :
          LET at == FormatOffset(index, index_size, i)
          IN  /\ SlotValue(PackData(fs), i) = at
              /\ Read(PackData(fs), at, RecordBytes(index[i])) = FormatRecord(index[i])

ZeroSlots(data, size) == {i \in 1..size : SlotValue(data, i) = 0}

\* C5: saved with more capacity than entries, the index table's zero slots
\* are exactly the capacity - length trailing ones, and the load of those
\* bytes makes no entry for a zero slot: it makes at most one entry per
\* non-zero slot, and exactly one when it returns.
SentinelCorrectness ==
    [][/\ (last'.op = "save" /\ last'.status = "ok" /\ index_size > Len(index))
          => /\ ZeroSlots(PackData(fs'), index_size) = (Len(index) + 1)..index_size
             /\ Cardinality(ZeroSlots(PackData(fs'), index_size))
                  = index_size - Len(index)
       /\ (/\ last.op = "save" /\ last.status = "ok" /\ index_size > Len(index)
           /\ last'.op = "load")
          => LET full == index_size - Cardinality(ZeroSlots(PackData(fs), index_size))
             IN  /\ index_size' = index_size
                 /\ Len(index') <= full
                 /\ (last'.status = "ok" => Len(index') = full)]_vars

\* An archive with an entry and a spare slot was saved, then loaded.
SentinelWitness ==
    /\ last.op = "load"
    /\ last.status = "ok"
    /\ ~damaged
    /\ PackData(fs) = SaveBytes(index, index_size)
    /\ Len(index) >= 1
    /\ index_size > Len(index)

\* C6: a load with a read the file could not satisfy raises the error of a
\* truncated input and leaves no entries behind.
TruncatedInputFails ==
    (last.op = "load" /\ last.short)
    => (last.status = "struct.error" /\ index = <<>>)

(***************************************************************************)
(* Spec: one FTLPack object, from FTLPack() on, packing a directory tree,  *)
(* saving, loading and unpacking, in any order.                            *)
(***************************************************************************)
\* def construct(self, path, min_index=2048)
DefaultMinIndex == 2048

TreeName == <<Ord.T>>

TreeKey == Norm(TreeName)

DestName == <<Ord.D>>

DestKey == Norm(DestName)

\* What a tree may hold, by key from its root: a file, a file in a
\* directory, a hidden file, a symbolic link to the first file, and a file
\* that may not be opened.
TreeNodes ==
    {<< <<<<Ord.a>>>>, FileNode(<<Ord.x>>) >>,
     << <<<<Ord.s>>, <<Ord.a>>>>, FileNode(<<Ord.y>>) >>,
     << <<<<Ord.dot, Ord.a>>>>, FileNode(<<Ord.z>>) >>,
     << <<<<Ord.l>>>>, LinkNode(<<Ord.slash, Ord.T, Ord.slash, Ord.a>>) >>,
     << <<<<Ord.k>>>>, LockedNode(<<Ord.y>>) >>}

\* The filesystem that holds the nodes S below the directory key.
TreeAt(key, S) ==
    LET keys == {key \o n[1] : n \in S}
        dirs == {SubSeq(key, 1, m) : m \in 0..Len(key)}
                \cup UNION {{SubSeq(k, 1, m) : m \in 0..(Len(k) - 1)} : k \in keys}
    IN  [k \in dirs \cup keys
          |-> IF k \in keys
              THEN (CHOOSE n \in S : key \o n[1] = k)[2]
              ELSE DirNode]

\* The spellings of the tree's path given to construct.
TreeRoots == {TreeName, TreeName \o Sep}

\* min_index as callers give it: none (the default), or a small one.
MinIndexes == {0, 1, DefaultMinIndex}

InitObject(trees) ==
    /\ index = <<>>
    /\ index_size = 0
    /\ fs \in trees
    /\ last = NoCall
    /\ damaged = FALSE
    /\ clean = TRUE
    /\ produced = <<>>

\* The trees of Spec: those without a hidden file or a symbolic link.
PlainNodes == {n \in TreeNodes : n[2].kind = "file" /\ ~IsHidden(n[1][1])}

Init == InitObject({TreeAt(TreeKey, S) : S \in SUBSET PlainNodes})

Next ==
    \/ \E path \in TreeRoots, min_index \in 0..1, rev \in BOOLEAN :
          Construct(path, min_index, rev)
    \/ Save(PackName)
    \/ Load(PackName)
    \/ Destruct(DestName)
    \/ \E n \in 1..MaxCut : Truncate(PackName, n)

Spec == Init /\ [][Next]_vars

(***************************************************************************)
(* SpecTree: packing any tree of the universe and unpacking it.            *)
(***************************************************************************)
InitTree == InitObject({TreeAt(TreeKey, S) : S \in SUBSET TreeNodes})

NextTree ==
    \/ \E path \in TreeRoots, min_index \in MinIndexes, rev \in BOOLEAN :
          Construct(path, min_index, rev)
    \/ Destruct(DestName)

SpecTree == InitTree /\ [][NextTree]_vars

(***************************************************************************)
(* SpecExtract: unpacking any archive of the bounded universe into a       *)
(* directory that is not there yet, or holds files already.                *)
(***************************************************************************)
ExtractPaths == {<<Ord.a>>, <<Ord.s, Ord.slash, Ord.a>>}

ExtractContents == {<<Ord.x>>, <<Ord.y>>}

ExtractEntries == {FileEntry(p, c) : p \in ExtractPaths, c \in ExtractContents}

\* What the directory may hold already: a file an entry names, a file no
\* entry names, and a file where an entry needs a directory.
DestNodes ==
    {<< <<<<Ord.a>>>>, FileNode(<<Ord.z>>) >>,
     << <<<<Ord.k>>>>, FileNode(<<Ord.z>>) >>,
     << <<<<Ord.s>>>>, FileNode(<<Ord.z>>) >>}

InitExtract ==
    /\ index \in UNION {[1..m -> ExtractEntries] : m \in 0..MaxEntries}
    /\ index_size = Len(index)
    /\ fs \in {EmptyFs} \cup {TreeAt(DestKey, S) : S \in SUBSET DestNodes}
    /\ last = NoCall
    /\ damaged = FALSE
    /\ clean = TRUE
    /\ produced = index

NextExtract == Destruct(DestName)

SpecExtract == InitExtract /\ [][NextExtract]_vars

(***************************************************************************)
(* Properties of construct and destruct.                                   *)
(***************************************************************************)
RECURSIVE KeyText(_)
\* A key as a path relative to its directory, '/' between the names.
KeyText(key) ==
    IF Len(key) = 1 THEN key[1] ELSE key[1] \o <<Ord.slash>> \o KeyText(Tail(key))

\* The keys, from the tree's root, of the symbolic links below it that
\* lead to a regular file.
FileLinksUnder(f, key) ==
    {SubSeq(k, Len(key) + 1, Len(k)) :
        k \in {q \in DOMAIN f : /\ Len(q) > Len(key)
                                 /\ SubSeq(q, 1, Len(key)) = key
                                 /\ f[q].kind = "link"
                                 /\ Lookup(f, NormAt(Parent(q), f[q].data)).kind = "file"}}

\* C3: unpacking what construct packed, into a directory holding no file,
\* leaves there exactly the tree's regular files, with their contents.
RoundTripPackUnpack ==
    [][(/\ last.op = "construct" /\ last.status = "ok"
        /\ last'.op = "destruct"
        /\ FilesUnder(fs, DestKey) = {})
        => /\ FilesUnder(fs', DestKey) = FilesUnder(fs, TreeKey)
           /\ \A k \in FilesUnder(fs, TreeKey) :
                 Lookup(fs', DestKey \o k).data = fs[TreeKey \o k].data]_vars

\* C7: after construct, every regular file below the root has an entry
\* whose path is the file's path from the root, '/' between the names, and
\* every entry is such a file's, or that of a link to one.
EntryPathsRelative ==
    (last.op = "construct" /\ last.status = "ok")
    => /\ \A k \in FilesUnder(fs, TreeKey) :
             \E i \in 1..Len(index) :
                 /\ index[i].path = KeyText(k)
                 /\ index[i].contents = fs[TreeKey \o k].data
       /\ \A i \in 1..Len(index) :
             \E k \in FilesUnder(fs, TreeKey) \cup FileLinksUnder(fs, TreeKey) :
                 index[i].path = KeyText(k)

TargetKey(path, idx, i) == Norm(Join(path, idx[i].path))

\* The key that holds what destruct wrote for entry i: the contents of the
\* last entry of idx with the same target.
HoldsLast(f, path, idx, i) ==
    LET same == {j \in 1..Len(idx) : TargetKey(path, idx, j) = TargetKey(path, idx, i)}
        won  == CHOOSE j \in same : \A h \in same : h <= j
        node == Lookup(f, TargetKey(path, idx, i))
    IN  node.kind = "file" /\ node.data = idx[won].contents

====
